---------------------------- MODULE Spec2Model ----------------------------
(***************************************************************************)
(* generate_word.py: a straight-line script that draws an icon with PIL,   *)
(* saves it as test_icon.png, builds a python-docx document, embeds the    *)
(* icon, saves the document as Test_Document.docx and prints one line.     *)
(*                                                                         *)
(* The state is the interpreter's position (pc, the source line of the     *)
(* next statement), the script's top-level names (icon_path, img, d, doc,  *)
(* p, file_name), the working directory (fs), standard output, and the     *)
(* environment the script runs in (which libraries are installed, whether  *)
(* the working directory is writable).  Every statement is one action.  A  *)
(* library call may raise; the script has no try/except, so a raise ends   *)
(* the process (pc = "error").  Restart is a new invocation of the script  *)
(* on the directory the previous invocation left behind.                   *)
(*                                                                         *)
(* Non-ASCII text literals are written with their code points (<U+6D4B>),  *)
(* one token per character, since the module is ASCII.                     *)
(***************************************************************************)
EXTENDS Integers, Sequences, FiniteSets, TLC

VARIABLES
    dirWritable,  \* the working directory grants write permission
    docxAvail,    \* python-docx is importable
    pilAvail,     \* Pillow is importable
    fs,           \* working directory: file name -> file content
    pc,           \* "L<n>": statement at source line n is next; "done"; "error"
    icon_path,    \* line 6   ("" while unbound)
    img,          \* line 7   (<<>> while unbound, else <<canvas>>)
    d,            \* line 8   (TRUE once the ImageDraw handle on img exists)
    doc,          \* line 15  (<<>> while unbound, else <<body>>, body a sequence of blocks)
    p,            \* line 21  (index in the body of the paragraph p names; 0 while unbound)
    file_name,    \* line 34  ("" while unbound)
    stdout,       \* lines printed by this invocation
    failedAt,     \* the line whose statement raised in this invocation, or "none"
    executed,     \* the lines this invocation has executed, in order
    writes,       \* file name -> number of save calls of this invocation that wrote it
    reads,        \* file name -> number of calls of this invocation that read it
    docAppends,   \* doc.add_* calls of this invocation that returned
    runAppends,   \* p.add_run calls of this invocation that returned
    docSaves,     \* doc.save calls of this invocation that returned
    startFs,      \* fs when this invocation started
    prevDoc,      \* <<content of the document file after the last successful invocation>>
    run           \* number of this invocation

env    == <<dirWritable, docxAvail, pilAvail>>
mem    == <<icon_path, img, d, doc, p, file_name>>
disk   == <<fs, writes, reads>>
counts == <<docAppends, runAppends, docSaves>>
ctl    == <<pc, failedAt, executed>>
inv    == <<startFs, prevDoc, run>>
vars   == <<env, mem, disk, counts, ctl, inv, stdout>>

\* Number of invocations of the script in one behaviour.
MaxRuns == 2

----------------------------------------------------------------------------
(* Text literals of the script. *)

\* line 18: 'YUUKA 测试文档'
TitleText == "YUUKA <U+6D4B><U+8BD5><U+6587><U+6863>"
\* line 21: '老师，这是为您生成的测试文档。'
GreetingText == "<U+8001><U+5E08><U+FF0C><U+8FD9><U+662F><U+4E3A><U+60A8><U+751F><U+6210><U+7684><U+6D4B><U+8BD5><U+6587><U+6863><U+3002>"
\* line 22: ' 这是一个加粗的测试文本。'
BoldText == " <U+8FD9><U+662F><U+4E00><U+4E2A><U+52A0><U+7C97><U+7684><U+6D4B><U+8BD5><U+6587><U+672C><U+3002>"
\* line 24: '功能演示'
SectionText == "<U+529F><U+80FD><U+6F14><U+793A>"
\* line 25: '下面展示了如何插入图标：'
BulletText == "<U+4E0B><U+9762><U+5C55><U+793A><U+4E86><U+5982><U+4F55><U+63D2><U+5165><U+56FE><U+6807><U+FF1A>"
\* line 30: '文档生成概率：100%'
ProbabilityText == "<U+6587><U+6863><U+751F><U+6210><U+6982><U+7387><U+FF1A>100%"
\* line 31: '验算结果：一切正常。'
ResultText == "<U+9A8C><U+7B97><U+7ED3><U+679C><U+FF1A><U+4E00><U+5207><U+6B63><U+5E38><U+3002>"

IconFile == "test_icon.png"
DocFile  == "Test_Document.docx"
\* A file of the working directory the script never names.
OtherFile == "notes.txt"
\* The name a write-to-temporary-then-rename would use; the script has no such step.
TempFile == "Test_Document.docx.tmp"
Files == {IconFile, DocFile, OtherFile, TempFile}

----------------------------------------------------------------------------
(* Control flow: the statements in source order. *)

Program ==
    << "L1", "L2", "L3", "L6", "L7", "L8", "L10", "L11", "L12", "L15", "L18",
       "L21", "L22", "L24", "L25", "L28", "L30", "L31", "L34", "L35", "L36" >>

IndexOf(line) == CHOOSE i \in 1..Len(Program) : Program[i] = line

After(line) ==
    IF IndexOf(line) = Len(Program) THEN "done" ELSE Program[IndexOf(line) + 1]

\* Step, were every statement wrapped in an except-and-continue: the raise is
\* noted and the next statement runs all the same.
Step_continue(line, ok) ==
    /\ pc = line
    /\ executed' = Append(executed, line)
    /\ pc' = After(line)
    /\ failedAt' = IF ok THEN failedAt ELSE line
    /\ UNCHANGED <<env, inv>>

\* A statement at `line` runs: it returns (ok) and the next statement follows,
\* or it raises and, nothing catching it, the process ends.
Step(line, ok) ==
    /\ pc = line
    /\ executed' = Append(executed, line)
    /\ IF ok THEN pc' = After(line) /\ failedAt' = failedAt
             ELSE pc' = "error" /\ failedAt' = line
    /\ UNCHANGED <<env, inv>>

\* The statement at `line` has been executed by this invocation.
Ran(line) == \E i \in DOMAIN executed : executed[i] = line

\* This invocation executed the statement at line a before the one at line b.
Precedes(a, b) ==
    \E i, j \in DOMAIN executed : i < j /\ executed[i] = a /\ executed[j] = b

----------------------------------------------------------------------------
(* Files. *)

Absent == [exists |-> FALSE, format |-> "", image |-> <<>>, body |-> <<>>]

PngOf(canvas) == [exists |-> TRUE, format |-> "PNG", image |-> <<canvas>>, body |-> <<>>]

DocxOf(body) == [exists |-> TRUE, format |-> "docx", image |-> <<>>, body |-> body]

\* What an interrupted write leaves: the file opened with "w", truncated, not completed.
Partial == [exists |-> TRUE, format |-> "partial", image |-> <<>>, body |-> <<>>]

\* open(path, "wb"): an existing file is truncated in place, which needs no
\* permission on the directory; a missing one is created, which does.
CanOpenForWrite(path) == fs[path].exists \/ dirWritable

\* Files the working directory may hold before the first invocation: an icon
\* and a document left by something else, with other content.
StaleCanvas == [mode |-> "RGB", size |-> <<16, 16>>, color |-> <<0, 0, 0>>, lines |-> <<>>]

StaleBody ==
    << [kind |-> "paragraph", level |-> -1, style |-> "", pic |-> <<>>,
        runs |-> <<[text |-> "old content", bold |-> "None"]>>] >>

NotesFile == [exists |-> TRUE, format |-> "text", image |-> <<>>, body |-> <<>>]

----------------------------------------------------------------------------
(* The library calls the script makes, by what they do to the script's      *)
(* objects.                                                                 *)

\* Image.new(mode, size, color): a canvas filled with one colour, nothing drawn.
ImageNew(mode, size, color) == [mode |-> mode, size |-> size, color |-> color, lines |-> <<>>]

\* d.line(xy, fill, width): draws on the canvas d was made for.
DrawLine(canvas, xy, fill, width) ==
    [canvas EXCEPT !.lines = Append(@, [xy |-> xy, fill |-> fill, width |-> width])]

\* docx.shared.Inches(n): a length in English Metric Units, 914400 to the inch.
Inches(n) == n * 914400

\* The style add_heading gives a heading: "Title" for level 0, "Heading n" otherwise.
HeadingStyle(level) == IF level = 0 THEN "Title" ELSE "Heading " \o ToString(level)

\* doc.add_heading(text, level): appends a heading block to the body.
add_heading(body, text, level) ==
    Append(body, [kind |-> "heading", level |-> level, style |-> HeadingStyle(level),
                  pic |-> <<>>, runs |-> <<[text |-> text, bold |-> "None"]>>])

\* doc.add_paragraph(text, style): appends a paragraph whose one run holds the
\* text; style "" is a paragraph given no style.
add_paragraph(body, text, style) ==
    Append(body, [kind |-> "paragraph", level |-> -1, style |-> style,
                  pic |-> <<>>, runs |-> <<[text |-> text, bold |-> "None"]>>])

\* add_run_bold, were the assignment of .bold left out.
add_run_plain(body, i, text) ==
    [body EXCEPT ![i].runs = Append(@, [text |-> text, bold |-> "None"])]

\* p.add_run(text).bold = True: appends a run to paragraph i of the body and
\* sets its bold flag.
add_run_bold(body, i, text) ==
    [body EXCEPT ![i].runs = Append(@, [text |-> text, bold |-> "True"])]

\* doc.add_picture(path, width): appends a block holding the image read from
\* the file at path, to be shown at the given width.
add_picture(body, path, file, width) ==
    Append(body, [kind |-> "picture", level |-> -1, style |-> "",
                  pic |-> <<[source |-> path, image |-> file.image[1], width |-> width]>>,
                  runs |-> <<>>])

\* The line print() writes.
SuccessLine(name) == "Successfully generated " \o name

----------------------------------------------------------------------------
(* Initial state: the interpreter about to run line 1, in some environment. *)

Init ==
    /\ dirWritable \in BOOLEAN
    /\ docxAvail \in BOOLEAN
    /\ pilAvail \in BOOLEAN
    /\ \E icon \in {Absent, PngOf(StaleCanvas)}, old \in {Absent, DocxOf(StaleBody)} :
           fs = [f \in Files |-> IF f = IconFile THEN icon
                                 ELSE IF f = DocFile THEN old
                                 ELSE IF f = OtherFile THEN NotesFile ELSE Absent]
    /\ startFs = fs
    /\ pc = "L1"
    /\ icon_path = ""
    /\ img = <<>>
    /\ d = FALSE
    /\ doc = <<>>
    /\ p = 0
    /\ file_name = ""
    /\ stdout = <<>>
    /\ failedAt = "none"
    /\ executed = <<>>
    /\ writes = [f \in Files |-> 0]
    /\ reads = [f \in Files |-> 0]
    /\ docAppends = 0
    /\ runAppends = 0
    /\ docSaves = 0
    /\ prevDoc = <<>>
    /\ run = 1

----------------------------------------------------------------------------
(* Lines 1-12: imports and icon generation. *)

\* line 1: from docx import Document
ImportDocx ==
    /\ Step("L1", docxAvail)
    /\ UNCHANGED <<mem, disk, counts, stdout>>

\* line 2: from docx.shared import Inches, Pt
ImportDocxShared ==
    /\ Step("L2", docxAvail)
    /\ UNCHANGED <<mem, disk, counts, stdout>>

\* ImportPIL, were the import deferred to first use: line 3 never raises.
ImportPIL_lazy ==
    /\ Step("L3", TRUE)
    /\ UNCHANGED <<mem, disk, counts, stdout>>

\* line 3: from PIL import Image, ImageDraw
ImportPIL ==
    /\ Step("L3", pilAvail)
    /\ UNCHANGED <<mem, disk, counts, stdout>>

\* line 6: icon_path = 'test_icon.png'
AssignIconPath ==
    /\ Step("L6", TRUE)
    /\ icon_path' = IconFile
    /\ UNCHANGED <<img, d, doc, p, file_name, disk, counts, stdout>>

\* line 7: img = Image.new('RGB', (100, 100), color = (73, 109, 137))
ImageNewStmt ==
    \E ok \in BOOLEAN :
        /\ Step("L7", ok)
        /\ img' = IF ok THEN <<ImageNew("RGB", <<100, 100>>, <<73, 109, 137>>)>> ELSE img
        /\ UNCHANGED <<icon_path, d, doc, p, file_name, disk, counts, stdout>>

\* line 8: d = ImageDraw.Draw(img)
ImageDrawDraw ==
    \E ok \in BOOLEAN :
        /\ Step("L8", ok /\ img # <<>>)
        /\ d' = (ok /\ img # <<>>)
        /\ UNCHANGED <<icon_path, img, doc, p, file_name, disk, counts, stdout>>

\* line 10: d.line((20, 50, 80, 50), fill=(255, 255, 0), width=5)
LineHorizontal ==
    \E ok \in BOOLEAN :
        /\ Step("L10", ok /\ d)
        /\ img' = IF ok /\ d
                  THEN <<DrawLine(img[1], <<20, 50, 80, 50>>, <<255, 255, 0>>, 5)>>
                  ELSE img
        /\ UNCHANGED <<icon_path, d, doc, p, file_name, disk, counts, stdout>>

\* line 11: d.line((50, 20, 50, 80), fill=(255, 255, 0), width=5)
LineVertical ==
    \E ok \in BOOLEAN :
        /\ Step("L11", ok /\ d)
        /\ img' = IF ok /\ d
                  THEN <<DrawLine(img[1], <<50, 20, 50, 80>>, <<255, 255, 0>>, 5)>>
                  ELSE img
        /\ UNCHANGED <<icon_path, d, doc, p, file_name, disk, counts, stdout>>

\* ImgSave, were the call's failure swallowed: the script goes on to line 15
\* whether or not the icon was written.
ImgSave_unchecked ==
    \E outcome \in {"written", "truncated", "removed"} :
        /\ pc = "L12"
        /\ outcome = "removed" => ~fs[icon_path].exists
        /\ LET opened == CanOpenForWrite(icon_path)
               ok == opened /\ outcome = "written"
           IN  /\ Step("L12", TRUE)
               /\ fs' = IF ~opened \/ outcome = "removed" THEN fs
                        ELSE IF ok THEN [fs EXCEPT ![icon_path] = PngOf(img[1])]
                        ELSE [fs EXCEPT ![icon_path] = Partial]
               /\ writes' = IF ok THEN [writes EXCEPT ![icon_path] = @ + 1] ELSE writes
        /\ UNCHANGED <<mem, reads, counts, stdout>>

\* line 12: img.save(icon_path)
\* The file cannot be opened (raise, directory untouched); or it is written
\* whole; or the write breaks off, leaving a truncated file or, where the
\* library removes a file it had itself created, none.
ImgSave ==
    \E outcome \in {"written", "truncated", "removed"} :
        /\ pc = "L12"
        /\ outcome = "removed" => ~fs[icon_path].exists
        /\ LET opened == CanOpenForWrite(icon_path)
               ok == opened /\ outcome = "written"
           IN  /\ Step("L12", ok)
               /\ fs' = IF ~opened \/ outcome = "removed" THEN fs
                        ELSE IF ok THEN [fs EXCEPT ![icon_path] = PngOf(img[1])]
                        ELSE [fs EXCEPT ![icon_path] = Partial]
               /\ writes' = IF ok THEN [writes EXCEPT ![icon_path] = @ + 1] ELSE writes
        /\ UNCHANGED <<mem, reads, counts, stdout>>

----------------------------------------------------------------------------
(* Lines 15-31: document assembly. *)

\* NewDocument, were it Document('Test_Document.docx') whenever that file is
\* there: the body starts as the body the file holds.
NewDocument_opensExisting ==
    \E ok \in BOOLEAN :
        /\ Step("L15", ok)
        /\ doc' = IF ~ok THEN doc
                  ELSE IF fs[DocFile].exists THEN <<fs[DocFile].body>> ELSE << <<>> >>
        /\ UNCHANGED <<icon_path, img, d, p, file_name, disk, counts, stdout>>

\* line 15: doc = Document()
\* No argument: the library's blank template, an empty body, whatever files
\* the working directory holds.
NewDocument ==
    \E ok \in BOOLEAN :
        /\ Step("L15", ok)
        /\ doc' = IF ok THEN << <<>> >> ELSE doc
        /\ UNCHANGED <<icon_path, img, d, p, file_name, disk, counts, stdout>>

\* A doc.add_* statement at `line` whose effect on the body is `body`.
DocAppend(line, ok, body) ==
    /\ Step(line, ok)
    /\ doc' = IF ok THEN <<body>> ELSE doc
    /\ docAppends' = IF ok THEN docAppends + 1 ELSE docAppends
    /\ UNCHANGED <<icon_path, img, d, file_name, fs, writes, runAppends, docSaves, stdout>>

\* line 18: doc.add_heading('YUUKA 测试文档', 0)
AddHeadingTitle ==
    \E ok \in BOOLEAN :
        /\ DocAppend("L18", ok, add_heading(doc[1], TitleText, 0))
        /\ UNCHANGED <<p, reads>>

\* line 21: p = doc.add_paragraph('老师，这是为您生成的测试文档。')
AddParagraphGreeting ==
    \E ok \in BOOLEAN :
        /\ DocAppend("L21", ok, add_paragraph(doc[1], GreetingText, ""))
        /\ p' = IF ok THEN Len(doc[1]) + 1 ELSE p
        /\ UNCHANGED reads

\* AddRunBold, were the bold text added with doc.add_paragraph instead of
\* p.add_run: one more block in the body, no second run in the greeting.
AddRunBold_asParagraph ==
    \E ok \in BOOLEAN :
        /\ Step("L22", ok)
        /\ doc' = IF ok THEN <<add_paragraph(doc[1], BoldText, "")>> ELSE doc
        /\ docAppends' = IF ok THEN docAppends + 1 ELSE docAppends
        /\ UNCHANGED <<icon_path, img, d, p, file_name, disk, runAppends, docSaves, stdout>>

\* line 22: p.add_run(' 这是一个加粗的测试文本。').bold = True
AddRunBold ==
    \E ok \in BOOLEAN :
        /\ Step("L22", ok)
        /\ doc' = IF ok THEN <<add_run_bold(doc[1], p, BoldText)>> ELSE doc
        /\ runAppends' = IF ok THEN runAppends + 1 ELSE runAppends
        /\ UNCHANGED <<icon_path, img, d, p, file_name, disk, docAppends, docSaves, stdout>>

\* line 24: doc.add_heading('功能演示', level=1)
AddHeadingSection ==
    \E ok \in BOOLEAN :
        /\ DocAppend("L24", ok, add_heading(doc[1], SectionText, 1))
        /\ UNCHANGED <<p, reads>>

\* line 25: doc.add_paragraph('下面展示了如何插入图标：', style='List Bullet')
AddParagraphBullet ==
    \E ok \in BOOLEAN :
        /\ DocAppend("L25", ok, add_paragraph(doc[1], BulletText, "List Bullet"))
        /\ UNCHANGED <<p, reads>>

\* AddPicture, were the picture taken from the canvas in memory instead of
\* the file: nothing is read from the directory.
AddPicture_fromMemory ==
    \E ok \in BOOLEAN :
        /\ pc = "L28"
        /\ DocAppend("L28", ok,
                     add_picture(doc[1], icon_path, PngOf(img[1]), Inches(1)))
        /\ UNCHANGED <<p, reads>>

\* line 28: doc.add_picture(icon_path, width=Inches(1.0))
\* The picture is given by path: the call opens the file and reads the image
\* from it, and raises when there is no file or it holds no image.
AddPicture ==
    \E ok \in BOOLEAN :
        LET file == fs[icon_path]
            readable == file.exists /\ file.format = "PNG"
        IN  /\ pc = "L28"
            /\ DocAppend("L28", ok /\ readable,
                         IF readable THEN add_picture(doc[1], icon_path, file, Inches(1))
                         ELSE doc[1])
            /\ reads' = IF file.exists THEN [reads EXCEPT ![icon_path] = @ + 1] ELSE reads
            /\ UNCHANGED p

\* line 30: doc.add_paragraph('文档生成概率：100%', style='Normal')
AddParagraphProbability ==
    \E ok \in BOOLEAN :
        /\ DocAppend("L30", ok, add_paragraph(doc[1], ProbabilityText, "Normal"))
        /\ UNCHANGED <<p, reads>>

\* line 31: doc.add_paragraph('验算结果：一切正常。', style='Normal')
AddParagraphResult ==
    \E ok \in BOOLEAN :
        /\ DocAppend("L31", ok, add_paragraph(doc[1], ResultText, "Normal"))
        /\ UNCHANGED <<p, reads>>

----------------------------------------------------------------------------
(* Lines 34-36: serialization and the success line. *)

\* line 34: file_name = 'Test_Document.docx'
AssignFileName ==
    /\ Step("L34", TRUE)
    /\ file_name' = DocFile
    /\ UNCHANGED <<icon_path, img, d, doc, p, disk, counts, stdout>>

\* DocSave, were the call's failure swallowed: line 36 runs whether or not the
\* document was written.
DocSave_unchecked ==
    \E outcome \in {"written", "truncated"} :
        /\ pc = "L35"
        /\ LET opened == CanOpenForWrite(file_name)
               ok == opened /\ outcome = "written"
           IN  /\ Step("L35", TRUE)
               /\ fs' = IF ~opened THEN fs
                        ELSE IF ok THEN [fs EXCEPT ![file_name] = DocxOf(doc[1])]
                        ELSE [fs EXCEPT ![file_name] = Partial]
               /\ writes' = IF ok THEN [writes EXCEPT ![file_name] = @ + 1] ELSE writes
               /\ docSaves' = IF ok THEN docSaves + 1 ELSE docSaves
        /\ UNCHANGED <<mem, reads, docAppends, runAppends, stdout>>

\* DocSave, were the package written to a temporary file first and that file
\* left behind after the copy.
DocSave_leavesTemp ==
    \E outcome \in {"written", "truncated"} :
        /\ pc = "L35"
        /\ LET opened == CanOpenForWrite(file_name)
               ok == opened /\ outcome = "written"
           IN  /\ Step("L35", ok)
               /\ fs' = IF ~opened THEN fs
                        ELSE IF ok THEN [fs EXCEPT ![file_name] = DocxOf(doc[1]),
                                                   ![TempFile] = DocxOf(doc[1])]
                        ELSE [fs EXCEPT ![file_name] = Partial]
               /\ writes' = IF ok THEN [writes EXCEPT ![file_name] = @ + 1,
                                                      ![TempFile] = @ + 1]
                             ELSE writes
               /\ docSaves' = IF ok THEN docSaves + 1 ELSE docSaves
        /\ UNCHANGED <<mem, reads, docAppends, runAppends, stdout>>

\* line 35: doc.save(file_name)
\* The file cannot be opened (raise, directory untouched); or the package is
\* written whole over whatever the file held; or the write breaks off and a
\* truncated file stays (no temporary file, no rename, no removal).
DocSave ==
    \E outcome \in {"written", "truncated"} :
        /\ pc = "L35"
        /\ LET opened == CanOpenForWrite(file_name)
               ok == opened /\ outcome = "written"
           IN  /\ Step("L35", ok)
               /\ fs' = IF ~opened THEN fs
                        ELSE IF ok THEN [fs EXCEPT ![file_name] = DocxOf(doc[1])]
                        ELSE [fs EXCEPT ![file_name] = Partial]
               /\ writes' = IF ok THEN [writes EXCEPT ![file_name] = @ + 1] ELSE writes
               /\ docSaves' = IF ok THEN docSaves + 1 ELSE docSaves
        /\ UNCHANGED <<mem, reads, docAppends, runAppends, stdout>>

\* line 36: print(f'Successfully generated {file_name}')
PrintSuccess ==
    \E ok \in BOOLEAN :
        /\ Step("L36", ok)
        /\ stdout' = IF ok THEN Append(stdout, SuccessLine(file_name)) ELSE stdout
        /\ UNCHANGED <<mem, disk, counts>>

----------------------------------------------------------------------------
(* The script is run again: a new process, the same directory.  Between two *)
(* invocations the directory's write permission may have been changed.      *)

Restart ==
    /\ pc \in {"done", "error"}
    /\ run < MaxRuns
    /\ run' = run + 1
    /\ dirWritable' \in BOOLEAN
    /\ startFs' = fs
    /\ prevDoc' = IF pc = "done" THEN <<fs[DocFile]>> ELSE prevDoc
    /\ pc' = "L1"
    /\ icon_path' = ""
    /\ img' = <<>>
    /\ d' = FALSE
    /\ doc' = <<>>
    /\ p' = 0
    /\ file_name' = ""
    /\ stdout' = <<>>
    /\ failedAt' = "none"
    /\ executed' = <<>>
    /\ writes' = [f \in Files |-> 0]
    /\ reads' = [f \in Files |-> 0]
    /\ docAppends' = 0
    /\ runAppends' = 0
    /\ docSaves' = 0
    /\ UNCHANGED <<docxAvail, pilAvail, fs>>

Next ==
    \/ ImportDocx \/ ImportDocxShared \/ ImportPIL
    \/ AssignIconPath \/ ImageNewStmt \/ ImageDrawDraw
    \/ LineHorizontal \/ LineVertical \/ ImgSave
    \/ NewDocument \/ AddHeadingTitle \/ AddParagraphGreeting \/ AddRunBold
    \/ AddHeadingSection \/ AddParagraphBullet \/ AddPicture
    \/ AddParagraphProbability \/ AddParagraphResult
    \/ AssignFileName \/ DocSave \/ PrintSuccess
    \/ Restart

Spec == Init /\ [][Next]_vars

----------------------------------------------------------------------------
(* What the script is to leave behind, written out in full. *)

ExpectedCanvas ==
    [mode |-> "RGB", size |-> <<100, 100>>, color |-> <<73, 109, 137>>,
     lines |-> << [xy |-> <<20, 50, 80, 50>>, fill |-> <<255, 255, 0>>, width |-> 5],
                  [xy |-> <<50, 20, 50, 80>>, fill |-> <<255, 255, 0>>, width |-> 5] >>]

ExpectedBody ==
    << [kind |-> "heading", level |-> 0, style |-> "Title", pic |-> <<>>,
        runs |-> <<[text |-> TitleText, bold |-> "None"]>>],
       [kind |-> "paragraph", level |-> -1, style |-> "", pic |-> <<>>,
        runs |-> <<[text |-> GreetingText, bold |-> "None"],
                   [text |-> BoldText, bold |-> "True"]>>],
       [kind |-> "heading", level |-> 1, style |-> "Heading 1", pic |-> <<>>,
        runs |-> <<[text |-> SectionText, bold |-> "None"]>>],
       [kind |-> "paragraph", level |-> -1, style |-> "List Bullet", pic |-> <<>>,
        runs |-> <<[text |-> BulletText, bold |-> "None"]>>],
       [kind |-> "picture", level |-> -1, style |-> "", runs |-> <<>>,
        pic |-> <<[source |-> "test_icon.png", image |-> ExpectedCanvas,
                   width |-> 914400]>>],
       [kind |-> "paragraph", level |-> -1, style |-> "Normal", pic |-> <<>>,
        runs |-> <<[text |-> ProbabilityText, bold |-> "None"]>>],
       [kind |-> "paragraph", level |-> -1, style |-> "Normal", pic |-> <<>>,
        runs |-> <<[text |-> ResultText, bold |-> "None"]>>] >>

ExpectedLine == "Successfully generated Test_Document.docx"

----------------------------------------------------------------------------
(* C1: once doc.save has returned, and so when the script has run to        *)
(* completion, the document file holds exactly the seven blocks of          *)
(* ExpectedBody in that order: the title heading (level 0); the greeting    *)
(* paragraph with a plain first run and a bold second run; the level-1      *)
(* heading; the 'List Bullet' paragraph; the picture read from              *)
(* test_icon.png at a width of one inch; the two 'Normal' paragraphs.       *)
C1_DocumentContent ==
    docSaves = 1 =>
        fs[DocFile] = [exists |-> TRUE, format |-> "docx", image |-> <<>>,
                       body |-> ExpectedBody]

C1_Witness == pc = "done" /\ docSaves = 1 /\ Len(fs[DocFile].body) = 7

(* C2: whenever line 28 (doc.add_picture) is about to run or has run, line  *)
(* 12 (img.save) has run after both d.line calls and has returned: the icon *)
(* file is on disk, complete, and holds the canvas with both lines.         *)
C2_IconSavedBeforeEmbed ==
    (pc = "L28" \/ Ran("L28")) =>
        /\ Precedes("L10", "L12") /\ Precedes("L11", "L12")
        /\ failedAt \notin {"L10", "L11", "L12"}
        /\ writes[IconFile] = 1
        /\ fs[IconFile] = PngOf(ExpectedCanvas)

C2_Witness == pc = "L28" /\ startFs[IconFile].exists = FALSE /\ fs[IconFile].exists

(* C3: standard output holds nothing or the one success line; it holds the  *)
(* line only when doc.save has returned and no statement has raised; a      *)
(* completed invocation has printed it once; an invocation in which a       *)
(* statement raised has printed nothing.                                    *)
C3_SuccessLine ==
    /\ stdout \in {<<>>, <<ExpectedLine>>}
    /\ stdout # <<>> =>
           /\ docSaves = 1 /\ Precedes("L35", "L36")
           /\ fs[DocFile].format = "docx"
           /\ failedAt = "none" /\ pc = "done"
    /\ pc = "done" => stdout = <<ExpectedLine>>
    /\ failedAt # "none" => stdout = <<>>

C3_Witness == stdout = <<ExpectedLine>> /\ pc = "done" /\ run = 1

(* C4: when a statement raises, the invocation ends there: what it has      *)
(* executed is the program up to and including that statement, each once;   *)
(* and what earlier statements wrote stays as written (the icon when a      *)
(* later statement raises, the document when print raises), while files     *)
(* not yet reached, and files the script never names, stay as they were.    *)
(* The file of a save that itself raised is as it was or truncated.         *)
C4_FailFast ==
    failedAt # "none" =>
        /\ pc = "error"
        /\ executed = SubSeq(Program, 1, IndexOf(failedAt))
        /\ \/ fs[IconFile] = IF IndexOf(failedAt) > IndexOf("L12")
                             THEN PngOf(ExpectedCanvas) ELSE startFs[IconFile]
           \/ failedAt = "L12" /\ fs[IconFile] = Partial
        /\ \/ fs[DocFile] = IF IndexOf(failedAt) > IndexOf("L35")
                            THEN DocxOf(ExpectedBody) ELSE startFs[DocFile]
           \/ failedAt = "L35" /\ fs[DocFile] = Partial
        /\ fs[OtherFile] = startFs[OtherFile]
        /\ fs[TempFile] = startFs[TempFile]

C4_Witness == pc = "error" /\ failedAt = "L28" /\ fs[IconFile] = PngOf(ExpectedCanvas)

(* C5 as stated: in a working directory that is not writable the script     *)
(* never completes, and the document file is not written or the success     *)
(* line is not printed.                                                     *)
C5_Original ==
    ~dirWritable => pc # "done" /\ (writes[DocFile] = 0 \/ stdout = <<>>)

(* C5 as amended: in a working directory that is not writable and that      *)
(* lacks at least one of the two output files when the script starts, the   *)
(* script never completes: it stops no later than the save that would have  *)
(* to create the missing file, the document file is left as it was, and     *)
(* nothing is printed.  (Where both files already exist, the saves          *)
(* overwrite them in place and the script completes.)                       *)
C5_UnwritableDirectory ==
    (~dirWritable /\ (~startFs[IconFile].exists \/ ~startFs[DocFile].exists)) =>
        /\ pc # "done"
        /\ stdout = <<>>
        /\ writes[DocFile] = 0
        /\ fs[DocFile] = startFs[DocFile]
        /\ pc # "error" =>
               IndexOf(pc) <= IndexOf(IF startFs[IconFile].exists THEN "L35" ELSE "L12")

C5_Witness ==
    /\ ~dirWritable /\ startFs[IconFile].exists /\ ~startFs[DocFile].exists
    /\ pc = "error" /\ failedAt = "L35"

(* C6: if python-docx or Pillow cannot be imported, the script stops at the *)
(* imports (line 1 for docx, line 3 for PIL): no file of the directory is   *)
(* created or changed and nothing is printed.                               *)
C6_ImportFailure ==
    (~docxAvail \/ ~pilAvail) =>
        /\ pc \in {"L1", "L2", "L3", "error"}
        /\ pc = "error" => failedAt = (IF docxAvail THEN "L3" ELSE "L1")
        /\ fs = startFs
        /\ \A f \in Files : writes[f] = 0
        /\ stdout = <<>>

C6_Witness == docxAvail /\ ~pilAvail /\ pc = "error" /\ failedAt = "L3"

(* C7: a completed invocation has written test_icon.png and                 *)
(* Test_Document.docx, each by one save call, and no other file: every      *)
(* other file of the directory is as it was and none has appeared.          *)
C7_ExactlyTwoFiles ==
    pc = "done" =>
        /\ writes = [f \in Files |-> IF f \in {IconFile, DocFile} THEN 1 ELSE 0]
        /\ fs[IconFile].format = "PNG" /\ fs[DocFile].format = "docx"
        /\ \A f \in Files \ {IconFile, DocFile} : fs[f] = startFs[f]
        /\ {f \in Files : fs[f].exists} =
               {f \in Files : startFs[f].exists} \cup {IconFile, DocFile}

C7_Witness ==
    /\ pc = "done" /\ ~startFs[IconFile].exists /\ ~startFs[DocFile].exists
    /\ fs[IconFile].exists /\ fs[DocFile].exists

(* C8: when the script completes after an earlier completed invocation, it  *)
(* has overwritten both files and the document file's content equals what   *)
(* the earlier invocation left; and whatever the document file held before  *)
(* an invocation (StaleBody, or nothing), what doc.save writes is seven     *)
(* blocks, none of them a block of that earlier content.                    *)
C8_RerunSameContent ==
    /\ (pc = "done" /\ prevDoc # <<>>) =>
           /\ fs[DocFile] = prevDoc[1]
           /\ writes[IconFile] = 1 /\ writes[DocFile] = 1
    /\ docSaves = 1 =>
           /\ Len(fs[DocFile].body) = 7
           /\ \A i \in DOMAIN fs[DocFile].body, j \in DOMAIN StaleBody :
                  fs[DocFile].body[i] # StaleBody[j]

C8_Witness == pc = "done" /\ run = 2 /\ prevDoc # <<>> /\ fs[DocFile] = prevDoc[1]

(* C9 as stated: the append operations performed between Document() and     *)
(* doc.save number seven.                                                   *)
C9_Original == pc = "L35" => docAppends + runAppends = 7

(* C9 as amended: the document is created empty; between Document() and     *)
(* doc.save it receives eight append operations, seven blocks appended to   *)
(* the body by doc.add_* and one run appended to the greeting paragraph by  *)
(* p.add_run; it is serialized at most once, and once it is, nothing more   *)
(* is appended.                                                             *)
C9_AppendsAndSave ==
    /\ (pc # "error" /\ pc # "done" /\ IndexOf(pc) <= IndexOf("L15")) => doc = <<>>
    /\ pc = "L18" => doc = << <<>> >> /\ docAppends = 0 /\ runAppends = 0
    /\ (pc \in {"L34", "L35"} \/ docSaves = 1) =>
           /\ docAppends = 7 /\ runAppends = 1
           /\ docAppends + runAppends = 8
           /\ Len(doc[1]) = 7 /\ Len(doc[1][2].runs) = 2
    /\ docSaves <= 1
    /\ docSaves = 1 => pc \in {"L36", "done", "error"} /\ failedAt \in {"none", "L36"}

C9_Witness == pc = "done" /\ docSaves = 1 /\ docAppends = 7 /\ runAppends = 1

(* C10 as stated: no statement of the script reads either output file.      *)
C10_Original == reads[IconFile] = 0 /\ reads[DocFile] = 0

(* C10 as amended: each output file is written at most once; the document   *)
(* file is never read; the icon file is read exactly once after it is       *)
(* written, by doc.add_picture at line 28, and by no other statement; and   *)
(* after img.save the canvas in memory stays what was saved.                *)
C10_WrittenOnceReadOnce ==
    /\ writes[IconFile] <= 1 /\ writes[DocFile] <= 1
    /\ \A f \in Files \ {IconFile} : reads[f] = 0
    /\ reads[IconFile] = (IF Ran("L28") THEN 1 ELSE 0)
    /\ reads[IconFile] = 1 => writes[IconFile] = 1 /\ Precedes("L12", "L28")
    /\ writes[IconFile] = 1 => img = <<ExpectedCanvas>> /\ fs[IconFile] = PngOf(img[1])

C10_Witness == reads[IconFile] = 1 /\ pc = "L30" /\ writes[IconFile] = 1

====
